---- MODULE Spec2Model ----
(***************************************************************************)
(* Model of libvirt/uri/ssh.go: the resolution of a qemu+ssh connection    *)
(* URI into a byte stream to the remote libvirt socket.                    *)
(*                                                                         *)
(* One resolution (one call of dialSSH) is a sequence of steps; the        *)
(* variables are the locals of dialSSH and sshClient that are live at each *)
(* step, the value dialSSH hands back, and a log of the connections it     *)
(* opened.  What a step reads from outside the process (files, environment *)
(* variables, the agent, the network, the remote host) is drawn when the   *)
(* step reads it and kept in obs until the next step.                      *)
(***************************************************************************)
EXTENDS Integers, Sequences, FiniteSets, TLC

VARIABLES
    u,                \* the ConnectionURI: Host, User, query parameters
    pc,               \* position in dialSSH / sshClient
    sshcfg,           \* *ssh_config.Config decoded at line 96 (nil or hosts)
    authMethods,      \* result of parseAuthMethods, line 101
    hostKeyCallback,  \* line 118 / 124
    username,         \* line 127 .. 139
    cfg,              \* ssh.ClientConfig, lines 142-147
    path,             \* branch of sshClient that was taken
    proxyConn,        \* raw transport under the handshake (or none)
    dials,            \* transport dial attempts made so far, in order
    conns,            \* connections opened so far, in order
    closed,           \* the places in conns of those closed since
    ret,              \* what dialSSH handed back (or how the call ended)
    obs               \* what the last step read from outside the process

vars == <<u, pc, sshcfg, authMethods, hostKeyCallback, username, cfg, path,
          proxyConn, dials, conns, closed, ret, obs>>

----------------------------------------------------------------------------
\* Bounds of the model.

\* longest sshauth list (number of comma separated identifiers)
MaxAuth == 2
\* most query parameters present in one URI
MaxParams == 1

----------------------------------------------------------------------------
\* Constants of ssh.go, lines 20-26.

defaultSSHPort == "22"
defaultSSHKeyPath == "${HOME}/.ssh/id_rsa"
defaultSSHKnownHostsPath == "${HOME}/.ssh/known_hosts"
defaultSSHConfigFile == "${HOME}/.ssh/config"
defaultSSHAuthMethods == "agent,privkey"
\* defaultUnixSock, used at line 156 (declared beside ConnectionURI)
defaultUnixSock == "/var/run/libvirt/libvirt-sock"

----------------------------------------------------------------------------
\* Strings.  A string is a TLA+ string; the conversions the code applies to
\* strings are computed on the pieces the string is made of.

\* strings.Join(s, ","): the text of an sshauth list
RECURSIVE Join(_)
Join(s) == IF Len(s) = 1 THEN s[1] ELSE s[1] \o "," \o Join(Tail(s))

AuthTokens == {"agent", "privkey", "ssh-password", "bogus"}
AuthLists == UNION {[1..n -> AuthTokens] : n \in 1..MaxAuth}
\* the default list is a list as well: Split must know it
SplitDomain == AuthLists \cup {<<"agent", "privkey">>}

\* strings.Split(str, ","), line 41
Split(str) == CHOOSE s \in SplitDomain : Join(s) = str

\* Paths are made of segments; a segment is literal text, "~", or a
\* reference to the HOME variable.
RECURSIVE Concat(_)
Concat(segs) == IF segs = <<>> THEN "" ELSE Head(segs) \o Concat(Tail(segs))

HOME == "/home/op"

PathSegs ==
    { <<"${HOME}", "/.ssh/id_rsa">>, <<"${HOME}", "/.ssh/known_hosts">>,
      <<"${HOME}", "/.ssh/config">>,
      <<"/etc/keys/id">>, <<"/etc/ssh.cfg">>, <<"/etc/kh">>,
      <<"/run/ctl.sock">>, <<"~", "/ctl.sock">>, <<"$HOME", "/ctl.sock">> }

Segments(p) == CHOOSE segs \in PathSegs : Concat(segs) = p

\* os.ExpandEnv: $HOME and ${HOME} become the value of HOME
ExpandEnv(p) ==
    LET segs == Segments(p)
    IN  Concat([i \in 1..Len(segs) |->
                   IF segs[i] \in {"$HOME", "${HOME}"} THEN HOME ELSE segs[i]])

\* strings.Replace(p, "~", "$HOME", 1), line 180: the first "~" only
ReplaceTilde(p) ==
    LET segs == Segments(p)
        first == {i \in 1..Len(segs) :
                     segs[i] = "~" /\ \A j \in 1..(i-1) : segs[j] # "~"}
    IN  Concat([i \in 1..Len(segs) |-> IF i \in first THEN "$HOME" ELSE segs[i]])

----------------------------------------------------------------------------
\* The ConnectionURI (a net/url URL).

\* authority host[:port]
HostPorts == { [hostname |-> "h1", port |-> ""],
               [hostname |-> "h1", port |-> "2222"] }
HostString(hp) ==
    IF hp.port = "" THEN hp.hostname ELSE hp.hostname \o ":" \o hp.port

\* u.Hostname() and u.Port(): the two sides of u.Host
Hostname(uri) == (CHOOSE hp \in HostPorts : HostString(hp) = uri.Host).hostname
Port(uri) == (CHOOSE hp \in HostPorts : HostString(hp) = uri.Host).port

\* userinfo: a username (possibly empty) and an optional password
Userinfos ==
    { [username |-> n, password |-> p, passwordSet |-> s] :
        n \in {"", "alice"}, p \in {"", "secret"}, s \in BOOLEAN }
\* a password that is set may be empty ("user:@host")
UserinfoOK(usr) == ~usr.passwordSet => usr.password = ""

Params == {"sshauth", "keyfile", "ssh_config", "knownhosts",
           "known_hosts_verify", "no_verify", "socket", "SSHControlPath"}
Absent == "<absent>"

ParamValues(p) ==
    CASE p = "sshauth" -> {Join(s) : s \in AuthLists}
      [] p = "keyfile" -> {"/etc/keys/id"}
      [] p = "ssh_config" -> {"/etc/ssh.cfg"}
      [] p = "knownhosts" -> {"/etc/kh"}
      [] p = "known_hosts_verify" -> {"ignore", "strict"}
      [] p = "no_verify" -> {"", "1"}
      [] p = "socket" -> {"/run/custom.sock"}
      [] p = "SSHControlPath" -> {"/run/ctl.sock", "~/ctl.sock"}

\* a parameter is absent or has one of its values
Opt(p) == ParamValues(p) \cup {Absent}

\* the query strings with at most MaxParams parameters present
Queries ==
    { q \in [sshauth : Opt("sshauth"), keyfile : Opt("keyfile"),
             ssh_config : Opt("ssh_config"), knownhosts : Opt("knownhosts"),
             known_hosts_verify : Opt("known_hosts_verify"),
             no_verify : Opt("no_verify"), socket : Opt("socket"),
             SSHControlPath : Opt("SSHControlPath")] :
        Cardinality({p \in Params : q[p] # Absent}) <= MaxParams }

\* u.Query().Get(k): the value, or "" when the parameter is absent
Get(uri, k) == IF uri.query[k] = Absent THEN "" ELSE uri.query[k]

URIs == { [Host |-> HostString(hp), User |-> usr, query |-> q] :
            hp \in HostPorts,
            usr \in {x \in Userinfos : UserinfoOK(x)},
            q \in Queries }

----------------------------------------------------------------------------
\* Values of the locals.

NilConfig == [nil |-> TRUE, hosts |-> <<>>]
\* decoded ssh config files: Host blocks with a User directive
ConfigFiles == { <<>>, <<[pattern |-> "h1", user |-> "carol"]>> }

NoObs == [cfgFile |-> "-", cfgPath |-> "-", agent |-> "-", keyFile |-> "-",
          keyPath |-> "-", khFile |-> "-", khPath |-> "-", getErr |-> "-",
          osUser |-> "-", httpProxy |-> "-", allProxy |-> "-", net |-> "-",
          hostKey |-> "-", accepts |-> "-"]

NoCallback == [kind |-> "unset", db |-> {}]
NoCfg == [User |-> "", HostKeyCallback |-> NoCallback, Auth |-> <<>>, set |-> FALSE]
NoConn == [kind |-> "none", addr |-> ""]
NoPath == [kind |-> "none", sshControlPath |-> "", proxyURI |-> ""]
Pending == [state |-> "pending", conn |-> "", err |-> ""]
Returned(c, e) == [state |-> "returned", conn |-> c, err |-> e]
\* log.Fatal: the process exits
Exited(e) == [state |-> "exited", conn |-> "", err |-> e]
\* a run-time panic nothing recovers
Panicked(e) == [state |-> "panicked", conn |-> "", err |-> e]

----------------------------------------------------------------------------
Init ==
    /\ u \in URIs
    /\ pc = "openConfig"
    /\ sshcfg = NilConfig
    /\ authMethods = <<>>
    /\ hostKeyCallback = NoCallback
    /\ username = ""
    /\ cfg = NoCfg
    /\ path = NoPath
    /\ proxyConn = NoConn
    /\ dials = <<>>
    /\ conns = <<>>
    /\ closed = {}
    /\ ret = Pending
    /\ obs = NoObs

\* dialSSH lines 86-99: open and decode the ssh config file; failures are
\* logged and leave sshcfg nil.
OpenConfig ==
    /\ pc = "openConfig"
    /\ LET p == Get(u, "ssh_config")
           sshConfigFilePath == IF p = "" THEN defaultSSHConfigFile ELSE p
       IN \E f \in {"unreadable", "unparsable", "parsed"} :
          \E content \in ConfigFiles :
            /\ f # "parsed" => content = <<>>
            /\ sshcfg' = IF f = "parsed"
                         THEN [nil |-> FALSE, hosts |-> content]
                         ELSE NilConfig
            /\ obs' = [NoObs EXCEPT !.cfgFile = f,
                                    !.cfgPath = ExpandEnv(sshConfigFilePath)]
    /\ pc' = "parseAuth"
    /\ UNCHANGED <<closed, u, authMethods, hostKeyCallback, username, cfg, path,
                   proxyConn, dials, conns, ret>>

----------------------------------------------------------------------------
\* parseAuthMethods, lines 28-83.

AgentStates == {"nosock", "dialfail", "ok"}
KeyStates == {"unreadable", "unparsable", "ok"}

AgentMethod == [method |-> "publickey", source |-> "agent", signer |-> "ok",
                password |-> ""]
\* ssh.PublicKeys(signer): signer is nil when ParsePrivateKey failed
KeyMethod(k) == [method |-> "publickey", source |-> "keyfile",
                 signer |-> IF k = "ok" THEN "ok" ELSE "nil", password |-> ""]
PasswordMethod(pw) == [method |-> "password", source |-> "userinfo",
                       signer |-> "-", password |-> pw]

\* the loop body with the password appended whether the userinfo has one
\* or not
AuthCaseAnyPassword(v, uri, agent, key) ==
    CASE v = "agent" -> IF agent = "ok" THEN <<AgentMethod>> ELSE <<>>
      [] v = "privkey" -> IF key = "unreadable" THEN <<>> ELSE <<KeyMethod(key)>>
      [] v = "ssh-password" -> <<PasswordMethod(uri.User.password)>>
      [] OTHER -> <<>>

\* One pass of the loop body, lines 44-79: what identifier v appends.
AuthCase(v, uri, agent, key) ==
    CASE v = "agent" ->
           \* lines 46-57: no socket, or the dial fails: continue
           IF agent = "ok" THEN <<AgentMethod>> ELSE <<>>
      [] v = "privkey" ->
           \* lines 59-69: a read failure continues; a parse failure is
           \* logged and the method is appended all the same
           IF key = "unreadable" THEN <<>> ELSE <<KeyMethod(key)>>
      [] v = "ssh-password" ->
           \* lines 71-75
           IF uri.User.passwordSet THEN <<PasswordMethod(uri.User.password)>>
           ELSE <<>>
      [] OTHER -> <<>>   \* lines 76-78: unsupported, warn only

\* the loop with the new method put in front of the result
RECURSIVE AuthLoopPrepends(_, _, _, _, _, _)
AuthLoopPrepends(auths, i, result, uri, agent, key) ==
    IF i > Len(auths) THEN result
    ELSE AuthLoopPrepends(auths, i + 1,
                          AuthCase(auths[i], uri, agent, key) \o result,
                          uri, agent, key)

\* the loop of lines 43-80 from element i on
RECURSIVE AuthLoop(_, _, _, _, _, _)
AuthLoop(auths, i, result, uri, agent, key) ==
    IF i > Len(auths) THEN result
    ELSE AuthLoop(auths, i + 1, result \o AuthCase(auths[i], uri, agent, key),
                  uri, agent, key)

\* lines 31-34 and 41
SSHAuthList(uri) ==
    LET a == Get(uri, "sshauth")
    IN  Split(IF a = "" THEN defaultSSHAuthMethods ELSE a)

\* lines 36-39
SSHKeyPath(uri) ==
    LET k == Get(uri, "keyfile") IN IF k = "" THEN defaultSSHKeyPath ELSE k

parseAuthMethods(uri, agent, key) ==
    AuthLoop(SSHAuthList(uri), 1, <<>>, uri, agent, key)

\* the agent connections parseAuthMethods opens (line 50), one per "agent"
\* identifier; nothing closes them
AgentConns(uri, agent) ==
    LET auths == SSHAuthList(uri)
        n == Cardinality({i \in 1..Len(auths) : auths[i] = "agent"})
    IN  IF agent = "ok" THEN [i \in 1..n |-> "agent"] ELSE <<>>

Has(auths, v) == \E i \in 1..Len(auths) : auths[i] = v

ErrNoAuth == "could not configure SSH authentication methods"
ErrKnownHosts == "failed to read ssh known hosts"
ErrUsername == "unable to get username"
ErrRemoteSocket == "failed to connect to libvirt on the remote host"

\* an empty chain let through
NoAuthMethodsIgnored(methods) == FALSE

\* the test of line 102
NoAuthMethods(methods) == Len(methods) < 1

\* dialSSH lines 101-104
ParseAuth ==
    /\ pc = "parseAuth"
    /\ \E agent \in AgentStates, key \in KeyStates :
         \* the agent and the key file are read only for their identifiers
         /\ ~Has(SSHAuthList(u), "agent") => agent = "nosock"
         /\ ~Has(SSHAuthList(u), "privkey") => key = "unreadable"
         /\ authMethods' = parseAuthMethods(u, agent, key)
         /\ conns' = conns \o AgentConns(u, agent)
         /\ obs' = [NoObs EXCEPT
                      !.agent = IF Has(SSHAuthList(u), "agent") THEN agent ELSE "-",
                      !.keyFile = IF Has(SSHAuthList(u), "privkey") THEN key ELSE "-",
                      !.keyPath = ExpandEnv(SSHKeyPath(u))]
    /\ IF NoAuthMethods(authMethods')
       THEN /\ ret' = Returned("", ErrNoAuth)
            /\ pc' = "done"
       ELSE /\ ret' = ret
            /\ pc' = "trust"
    /\ UNCHANGED <<closed, u, sshcfg, hostKeyCallback, username, cfg, path, proxyConn,
                   dials>>

----------------------------------------------------------------------------
\* The host key callback, dialSSH lines 106-125.

HostKeys == {"K1", "K2"}
\* contents of a known-hosts file: lines (host pattern, key)
KnownHostsFiles ==
    { {}, {[host |-> "h1", key |-> "K1"], [host |-> "[h1]:2222", key |-> "K1"]} }

InsecureIgnoreHostKey == [kind |-> "insecure", db |-> {}]
\* the callback of line 120 never stored (line 124 dropped)
KnownHostsCallbackDropped(db) == InsecureIgnoreHostKey
KnownHostsCallback(db) == [kind |-> "knownhosts", db |-> db]

\* lines 108-112 without the test of known_hosts_verify
DoVerifyNoIgnore(uri) == Get(uri, "no_verify") = ""

\* lines 108-112
DoVerify(uri) ==
    LET doVerify == (Get(uri, "no_verify") = "")
    IN  IF Get(uri, "known_hosts_verify") = "ignore" THEN FALSE ELSE doVerify

\* lines 106, 114-116
KnownHostsPath(uri) ==
    LET k == Get(uri, "knownhosts")
    IN  IF k = "" THEN defaultSSHKnownHostsPath ELSE k

Trust ==
    /\ pc = "trust"
    /\ IF DoVerify(u)
       THEN \E f \in {"unreadable", "unparsable", "parsed"} :
            \E db \in KnownHostsFiles :
              /\ f # "parsed" => db = {}
              /\ obs' = [NoObs EXCEPT !.khFile = f,
                                      !.khPath = ExpandEnv(KnownHostsPath(u))]
              /\ IF f = "parsed"
                 THEN /\ hostKeyCallback' = KnownHostsCallback(db)
                      /\ ret' = ret
                      /\ pc' = "username"
                 ELSE /\ hostKeyCallback' = InsecureIgnoreHostKey
                      /\ ret' = Returned("", ErrKnownHosts)
                      /\ pc' = "done"
       ELSE /\ hostKeyCallback' = InsecureIgnoreHostKey
            /\ obs' = NoObs
            /\ ret' = ret
            /\ pc' = "username"
    /\ UNCHANGED <<closed, u, sshcfg, authMethods, username, cfg, path, proxyConn,
                   dials, conns>>

----------------------------------------------------------------------------
\* The username, dialSSH lines 127-140.

OSUser == "op"

\* (*ssh_config.Config).Get(alias, "User"): the User of the first Host block
\* whose pattern matches alias, "" (and no error) when there is none.  The
\* error Get may report is an input of ResolveUsername.
ConfigGet(c, alias) ==
    LET hits == {i \in 1..Len(c.hosts) : c.hosts[i].pattern = alias}
    IN  IF hits = {} THEN ""
        ELSE c.hosts[CHOOSE i \in hits : \A j \in hits : i <= j].user

\* the lookups run whatever the userinfo says
NeedsLookupAlways(uri) == TRUE

\* line 128: the lookups run only for an empty userinfo username
NeedsLookup(uri) == uri.User.username = ""

ResolveUsername ==
    /\ pc = "username"
    /\ IF ~NeedsLookup(u)
       THEN /\ username' = u.User.username
            /\ obs' = NoObs
            /\ ret' = ret
            /\ pc' = "config"
       ELSE IF sshcfg.nil
       THEN \* line 129 calls Get on a nil *Config
            /\ username' = ""
            /\ obs' = NoObs
            /\ ret' = Panicked("nil pointer dereference")
            /\ pc' = "done"
       ELSE \E getErr \in BOOLEAN, osUser \in {"ok", "fail"} :
            LET sshu == IF getErr THEN "" ELSE ConfigGet(sshcfg, u.Host)
            IN  /\ ~getErr => osUser = "ok"
                /\ obs' = [NoObs EXCEPT
                             !.getErr = IF getErr THEN "err" ELSE "nil",
                             !.osUser = IF getErr THEN osUser ELSE "-"]
                /\ IF getErr /\ osUser = "fail"
                   THEN /\ username' = ""
                        /\ ret' = Returned("", ErrUsername)
                        /\ pc' = "done"
                   ELSE /\ username' = IF getErr THEN OSUser ELSE sshu
                        /\ ret' = ret
                        /\ pc' = "config"
    /\ UNCHANGED <<closed, u, sshcfg, authMethods, hostKeyCallback, cfg, path,
                   proxyConn, dials, conns>>

\* dialSSH lines 142-147: the locals are folded into the ClientConfig
BuildConfig ==
    /\ pc = "config"
    /\ cfg' = [User |-> username, HostKeyCallback |-> hostKeyCallback,
               Auth |-> authMethods, set |-> TRUE]
    /\ sshcfg' = NilConfig
    /\ authMethods' = <<>>
    /\ hostKeyCallback' = NoCallback
    /\ username' = ""
    /\ obs' = NoObs
    /\ pc' = "sshClient"
    /\ UNCHANGED <<closed, u, path, proxyConn, dials, conns, ret>>

----------------------------------------------------------------------------
\* sshClient, lines 167-221.

\* values of HTTP_PROXY and ALL_PROXY; the last one is no URL
ProxyEnvValues == {"", "socks5://127.0.0.1:1080", "tcp://10.0.0.9:1080",
                   "socks5://[::1"}

\* url.Parse of a proxy variable: scheme and host, or an error
UrlParse(str) ==
    CASE str = "socks5://127.0.0.1:1080" ->
           [err |-> "", Scheme |-> "socks5", Host |-> "127.0.0.1:1080"]
      [] str = "tcp://10.0.0.9:1080" ->
           [err |-> "", Scheme |-> "tcp", Host |-> "10.0.0.9:1080"]
      [] OTHER -> [err |-> "parse: missing ']' in host", Scheme |-> "", Host |-> ""]

\* the two variables looked up in the other order
proxyByEnvVarAllFirst(httpProxy, allProxy) ==
    IF allProxy # "" THEN allProxy ELSE httpProxy

\* proxyByEnvVar, lines 223-229
proxyByEnvVar(httpProxy, allProxy) ==
    IF httpProxy # "" THEN httpProxy ELSE allProxy

\* lines 171-174 and the Sprintf of lines 176, 194, 215
TargetPort(uri) == IF Port(uri) = "" THEN defaultSSHPort ELSE Port(uri)
TargetAddr(uri) == Hostname(uri) \o ":" \o TargetPort(uri)

\* lines 149-152: an error of sshClient ends in log.Fatal
SSHClientFailed(e) == Exited(e)

\* a branch that failed falls back to the direct dial
AfterErrorFallsBack(step) == IF step = "directDial" THEN "done" ELSE "directDial"

\* every error return of sshClient (lines 176, 183, 187, 191, 196, 202,
\* 206, 210) ends the call: no other branch is entered after a failure
AfterError(step) == "done"

Dial(kind, network, addr, target) ==
    [kind |-> kind, network |-> network, addr |-> addr, target |-> target]

\* the branches with the proxy tested before the control path
PathKindProxyFirst(sshControlPath, proxyURI) ==
    IF sshControlPath = "" /\ proxyURI = "" THEN "Direct"
    ELSE IF proxyURI # "" THEN "ViaProxy"
    ELSE "ViaControlChannel"

\* the branch structure of lines 175-199
PathKind(sshControlPath, proxyURI) ==
    IF sshControlPath = "" /\ proxyURI = "" THEN "Direct"
    ELSE IF sshControlPath # "" THEN "ViaControlChannel"
    ELSE "ViaProxy"

\* lines 168-179: which branch is taken
SelectPath ==
    /\ pc = "sshClient"
    /\ \E httpProxy \in ProxyEnvValues, allProxy \in ProxyEnvValues :
         LET sshControlPath == Get(u, "SSHControlPath")
             proxyURI == proxyByEnvVar(httpProxy, allProxy)
             kind == PathKind(sshControlPath, proxyURI)
         IN  /\ path' = [kind |-> kind, sshControlPath |-> sshControlPath,
                         proxyURI |-> proxyURI]
             /\ pc' = CASE kind = "Direct" -> "directDial"
                         [] kind = "ViaControlChannel" -> "controlDial"
                         [] OTHER -> "proxyDial"
             /\ obs' = [NoObs EXCEPT !.httpProxy = httpProxy,
                                     !.allProxy = allProxy]
    /\ UNCHANGED <<closed, u, sshcfg, authMethods, hostKeyCallback, username, cfg,
                   proxyConn, dials, conns, ret>>

\* line 176, first half of ssh.Dial: the TCP dial
DirectDial ==
    /\ pc = "directDial"
    /\ dials' = Append(dials, Dial("direct", "tcp", TargetAddr(u), TargetAddr(u)))
    /\ \E net \in {"refused", "connected"} :
         /\ obs' = [NoObs EXCEPT !.net = net]
         /\ IF net = "connected"
            THEN /\ proxyConn' = [kind |-> "tcp", addr |-> TargetAddr(u)]
                 /\ conns' = Append(conns, "tcp")
                 /\ ret' = ret
                 /\ pc' = "handshake"
            ELSE /\ proxyConn' = proxyConn
                 /\ conns' = conns
                 /\ ret' = SSHClientFailed("dial tcp: connection refused")
                 /\ pc' = AfterError("directDial")
    /\ UNCHANGED <<closed, u, sshcfg, authMethods, hostKeyCallback, username, cfg, path>>

\* lines 180-188: stat the control socket and dial it
ControlDial ==
    /\ pc = "controlDial"
    /\ LET sshControlPath == ExpandEnv(ReplaceTilde(path.sshControlPath))
       IN \E net \in {"nofile", "refused", "connected"} :
            /\ obs' = [NoObs EXCEPT !.net = net]
            /\ dials' = IF net = "nofile" THEN dials
                        ELSE Append(dials, Dial("control", "unix", sshControlPath,
                                                sshControlPath))
            /\ IF net = "connected"
               THEN /\ conns' = Append(conns, "control")
                    /\ ret' = ret
                    /\ pc' = "controlSession"
               ELSE /\ conns' = conns
                    /\ ret' = SSHClientFailed(IF net = "nofile"
                                              THEN "stat: no such file or directory"
                                              ELSE "dial unix: connection refused")
                    /\ pc' = AfterError("controlDial")
    /\ UNCHANGED <<closed, u, sshcfg, authMethods, hostKeyCallback, username, cfg, path,
                   proxyConn>>

\* lines 189-198: the control session and the channel to host:port over it
ControlSession ==
    /\ pc = "controlSession"
    /\ \E net \in {"nocontrol", "refused", "connected"} :
         /\ obs' = [NoObs EXCEPT !.net = net]
         /\ dials' = IF net = "nocontrol" THEN dials
                     ELSE Append(dials, Dial("channel", "tcp", TargetAddr(u),
                                             TargetAddr(u)))
         /\ IF net = "connected"
            THEN /\ proxyConn' = [kind |-> "channel", addr |-> TargetAddr(u)]
                 /\ conns' = Append(conns, "channel")
                 /\ ret' = ret
                 /\ pc' = "handshake"
            ELSE /\ proxyConn' = proxyConn
                 /\ conns' = conns
                 /\ ret' = SSHClientFailed(IF net = "nocontrol"
                                           THEN "control client: handshake failed"
                                           ELSE "ssh: rejected: connect failed")
                 /\ pc' = AfterError("controlSession")
    /\ UNCHANGED <<closed, u, sshcfg, authMethods, hostKeyCallback, username, cfg, path>>

\* net.Dial knows these networks only; proxy.SOCKS5 dials the proxy with
\* the network it was given (line 204 gives it the scheme of the URL)
TCPNetworks == {"tcp", "tcp4", "tcp6"}

\* lines 200-212: parse the proxy URL, dial the proxy, ask it for u.Host
ProxyDial ==
    /\ pc = "proxyDial"
    /\ LET parsedProxyURI == UrlParse(path.proxyURI)
       IN IF parsedProxyURI.err # ""
          THEN /\ obs' = NoObs
               /\ dials' = dials
               /\ proxyConn' = proxyConn
               /\ conns' = conns
               /\ ret' = SSHClientFailed(parsedProxyURI.err)
               /\ pc' = AfterError("proxyDial")
          ELSE \E net \in {"refused", "connected"} :
               LET ok == /\ net = "connected"
                         /\ parsedProxyURI.Scheme \in TCPNetworks
                         /\ Port(u) # ""
               IN /\ obs' = [NoObs EXCEPT !.net = net]
                  /\ dials' = Append(dials, Dial("proxy", parsedProxyURI.Scheme,
                                                 parsedProxyURI.Host, u.Host))
                  /\ IF ok
                     THEN /\ proxyConn' = [kind |-> "socks", addr |-> u.Host]
                          /\ conns' = Append(conns, "socks")
                          /\ ret' = ret
                          /\ pc' = "handshake"
                     ELSE /\ proxyConn' = proxyConn
                          /\ conns' = conns
                          /\ ret' = SSHClientFailed("socks connect failed")
                          /\ pc' = AfterError("proxyDial")
    /\ UNCHANGED <<closed, u, sshcfg, authMethods, hostKeyCallback, username, cfg, path>>

----------------------------------------------------------------------------
\* The handshake: ssh.NewClientConn over the raw transport (line 215, and
\* the second half of ssh.Dial at line 176).

\* knownhosts.Normalize: "host" for port 22, "[host]:port" otherwise
Normalize(uri) ==
    IF TargetPort(uri) = "22" THEN Hostname(uri)
    ELSE "[" \o Hostname(uri) \o "]:" \o TargetPort(uri)

\* the callback's verdict on a presented key
HostKeyAccepted(cb, uri, key) ==
    \/ cb.kind = "insecure"
    \/ /\ cb.kind = "knownhosts"
       /\ \E l \in cb.db : l.host = Normalize(uri) /\ l.key = key

\* which credentials the remote host accepts, by their source
AcceptSets == { {}, {"agent"}, {"keyfile"}, {"userinfo"},
                {"agent", "keyfile", "userinfo"} }

\* The client tries, in the order of cfg.Auth, the first method of each
\* method name; a nil signer panics when it is asked for its public key.
RECURSIVE AuthOutcome(_, _, _)
AuthOutcome(auth, tried, accepts) ==
    IF auth = <<>> THEN "rejected"
    ELSE LET a == Head(auth)
         IN  IF a.method \in tried THEN AuthOutcome(Tail(auth), tried, accepts)
             ELSE IF a.signer = "nil" THEN "panic"
             ELSE IF a.source \in accepts THEN "ok"
             ELSE AuthOutcome(Tail(auth), tried \cup {a.method}, accepts)

Handshake ==
    /\ pc = "handshake"
    /\ \E hostKey \in HostKeys \cup {"-"}, accepts \in AcceptSets :
         /\ hostKey = "-" => accepts = {}
         /\ obs' = [NoObs EXCEPT !.hostKey = hostKey, !.accepts = accepts]
         /\ IF hostKey = "-"
            THEN \* the remote side never answers: nothing bounds the wait
                 /\ conns' = conns /\ ret' = ret /\ pc' = "blocked"
            ELSE IF ~HostKeyAccepted(cfg.HostKeyCallback, u, hostKey)
            THEN /\ conns' = conns
                 /\ ret' = SSHClientFailed("ssh: handshake failed: host key")
                 /\ pc' = "done"
            ELSE LET a == AuthOutcome(cfg.Auth, {}, accepts)
                 IN  /\ conns' = IF a = "ok" THEN Append(conns, "session") ELSE conns
                     /\ ret' = CASE a = "ok" -> ret
                                 [] a = "panic" -> Panicked("nil pointer dereference")
                                 [] OTHER -> SSHClientFailed("ssh: unable to authenticate")
                     /\ pc' = IF a = "ok" THEN "remoteDial" ELSE "done"
    /\ UNCHANGED <<closed, u, sshcfg, authMethods, hostKeyCallback, username, cfg, path,
                   proxyConn, dials>>

\* the socket parameter never looked at
SocketAddressDefaultOnly(uri) == defaultUnixSock

\* lines 154-157: the socket parameter, the default path when it is empty
SocketAddress(uri) ==
    LET address == Get(uri, "socket")
    IN  IF address = "" THEN defaultUnixSock ELSE address

\* dialSSH lines 159-164: the channel to the remote libvirt socket
RemoteDial ==
    /\ pc = "remoteDial"
    /\ LET address == SocketAddress(u)
       IN /\ dials' = Append(dials, Dial("channel", "unix", address, address))
          /\ \E net \in {"refused", "connected"} :
               /\ obs' = [NoObs EXCEPT !.net = net]
               /\ IF net = "connected"
                  THEN /\ conns' = Append(conns, "stream")
                       /\ ret' = Returned(address, "")
                  ELSE /\ conns' = conns
                       /\ ret' = Returned("", ErrRemoteSocket)
    /\ pc' = "done"
    /\ UNCHANGED <<closed, u, sshcfg, authMethods, hostKeyCallback, username, cfg, path,
                   proxyConn>>

\* The caller closes the stream of line 164: c is the channel of line 159,
\* and closing a channel closes neither the client of line 149 nor the
\* connection under it, which dialSSH kept no reference to.
Close ==
    /\ pc = "done"
    /\ ret.conn # ""
    /\ closed' = closed \cup {i \in 1..Len(conns) : conns[i] = "stream"}
    /\ obs' = NoObs
    /\ pc' = "closed"
    /\ UNCHANGED <<u, sshcfg, authMethods, hostKeyCallback, username, cfg, path,
                   proxyConn, dials, conns, ret>>

Next ==
    \/ OpenConfig
    \/ ParseAuth
    \/ Trust
    \/ ResolveUsername
    \/ BuildConfig
    \/ SelectPath
    \/ DirectDial
    \/ ControlDial
    \/ ControlSession
    \/ ProxyDial
    \/ Handshake
    \/ RemoteDial
    \/ Close

Spec == Init /\ [][Next]_vars

----------------------------------------------------------------------------
\* Properties.

\* the state is the one parseAuthMethods left (lines 101-104 just ran)
AfterParseAuth == obs.keyPath # "-"
\* the state is the one the path selection left (lines 168-179 just ran)
AfterSelectPath == obs.httpProxy # "-"

\* the dials of a raw transport: direct TCP, control socket, proxy
TransportDials ==
    SelectSeq(dials, LAMBDA d : d.kind \in {"direct", "control", "proxy"})

\* the identifiers of the sshauth parameter, agent,privkey by default
ConfiguredAuths ==
    IF u.query.sshauth = Absent THEN <<"agent", "privkey">>
    ELSE Split(u.query.sshauth)

\* the target host:port, 22 by default
TargetLiteral == IF u.Host = "h1" THEN "h1:22" ELSE "h1:2222"

\* C1: a resolution that reached the transport and ended, ended by handing
\* its caller a stream or an error, and exactly one of the two: no failure
\* of the transport or of the handshake ends it in another way.
C1_EndsWithStreamOrError ==
    (pc = "done" /\ path.kind # "none") =>
        /\ ret.state = "returned"
        /\ (ret.conn = "") # (ret.err = "")

\* an sshauth entry has no usable method: unknown, agent without a reachable
\* socket, key file unreadable or unparsable, password missing
Unusable(v) ==
    CASE v = "agent" -> obs.agent # "ok"
      [] v = "privkey" -> obs.keyFile \in {"unreadable", "unparsable"}
      [] v = "ssh-password" -> ~u.User.passwordSet
      [] OTHER -> TRUE

\* C2: when no entry of the sshauth list has a usable method, the resolution
\* fails with the no-usable-auth-method error and has dialed no transport.
C2_NoUsableAuthFailsBeforeDial ==
    (AfterParseAuth /\ \A i \in 1..Len(ConfiguredAuths) : Unusable(ConfiguredAuths[i]))
        => /\ pc = "done"
           /\ ret = Returned("", ErrNoAuth)
           /\ TransportDials = <<>>

\* C3: the chain holds one method for each entry whose prerequisites are met
\* and none for the others; a key file that was read but does not parse
\* contributes no method.
C3_ChainExcludesUnviable ==
    AfterParseAuth =>
        /\ Len(authMethods) =
             Cardinality({i \in 1..Len(ConfiguredAuths) : ~Unusable(ConfiguredAuths[i])})
        /\ \A k \in 1..Len(authMethods) : authMethods[k].signer # "nil"

\* the identifier a method comes from
SourceOf(v) ==
    CASE v = "agent" -> "agent"
      [] v = "privkey" -> "keyfile"
      [] v = "ssh-password" -> "userinfo"
      [] OTHER -> "none"

\* C4: the methods of the chain come from the identifiers of the list in
\* their order, one method per identifier at most, and every identifier
\* whose prerequisites are met has its method, whatever was skipped before.
C4_ChainPreservesOrder ==
    AfterParseAuth =>
        \E f \in [1..Len(authMethods) -> 1..Len(ConfiguredAuths)] :
            /\ \A j, k \in 1..Len(authMethods) : j < k => f[j] < f[k]
            /\ \A k \in 1..Len(authMethods) :
                   authMethods[k].source = SourceOf(ConfiguredAuths[f[k]])
            /\ \A i \in 1..Len(ConfiguredAuths) :
                   ~Unusable(ConfiguredAuths[i])
                       => \E k \in 1..Len(authMethods) : f[k] = i

\* a password first and the agent second give the two methods in that order
C4_Witness ==
    /\ AfterParseAuth
    /\ ConfiguredAuths = <<"ssh-password", "agent">>
    /\ Len(authMethods) = 2
    /\ authMethods[1].method = "password"
    /\ authMethods[2].source = "agent"

\* what insecure mode guarantees, for a URI that asks for it
NeverRejects ==
    /\ hostKeyCallback.kind \in {"unset", "insecure"}
    /\ cfg.set => /\ cfg.HostKeyCallback.kind = "insecure"
                  /\ \A k \in HostKeys : HostKeyAccepted(cfg.HostKeyCallback, u, k)
    /\ obs.khFile = "-"
    /\ ret.err \notin {ErrKnownHosts, "ssh: handshake failed: host key"}

\* C5 as stated: with known_hosts_verify=ignore, or with no_verify present
\* whatever its value, every host key is accepted and the known-hosts file
\* is not loaded.
C5_InsecureNeverRejects_Stated ==
    (Get(u, "known_hosts_verify") = "ignore" \/ u.query.no_verify # Absent)
        => NeverRejects

\* C5 amended: with known_hosts_verify=ignore, or with no_verify present and
\* not empty, every host key is accepted and the known-hosts file is not
\* loaded.
C5_InsecureNeverRejects ==
    (Get(u, "known_hosts_verify") = "ignore"
        \/ (u.query.no_verify # Absent /\ u.query.no_verify # ""))
        => NeverRejects

\* the handshake went through with no_verify=1 and a key no file vouches for
C5_Witness ==
    /\ u.query.no_verify = "1"
    /\ pc = "remoteDial"
    /\ obs.hostKey \in HostKeys
    /\ cfg.HostKeyCallback.db = {}

\* the name known-hosts files use for the target
KnownHostsName == IF u.Host = "h1" THEN "h1" ELSE "[h1]:2222"

\* C6: with verification on, a stream is returned only through an
\* established session, and a session is established only when the
\* known-hosts callback found the presented key under the host's name and
\* one of the offered methods was accepted; a key the file does not list
\* for the host ends the resolution without a session.
C6_VerifiedStreamNeedsTrustAndAuth ==
    (u.query.no_verify = Absent /\ Get(u, "known_hosts_verify") # "ignore") =>
        /\ ret.conn # "" => Has(conns, "session") /\ Has(conns, "stream")
        /\ Has(conns, "session") => cfg.HostKeyCallback.kind = "knownhosts"
        /\ pc = "remoteDial" =>
             /\ \E l \in cfg.HostKeyCallback.db :
                    l.host = KnownHostsName /\ l.key = obs.hostKey
             /\ \E i \in 1..Len(cfg.Auth) :
                    cfg.Auth[i].signer # "nil" /\ cfg.Auth[i].source \in obs.accepts
        /\ (obs.hostKey \in HostKeys
              /\ ~\E l \in cfg.HostKeyCallback.db :
                     l.host = KnownHostsName /\ l.key = obs.hostKey)
             => ~Has(conns, "session") /\ ret.conn = ""

\* a stream came back over a proxy with verification on
C6_Witness ==
    /\ u.query.no_verify = Absent /\ Get(u, "known_hosts_verify") # "ignore"
    /\ ret.conn # ""
    /\ path.kind = "ViaProxy"

\* C7: with no username in the userinfo and a readable config file, the
\* User directive of the target host is the username; without such a
\* directive the username is the OS account's name, never ""; and a failed
\* OS account lookup fails the resolution before any transport dial.
C7_UsernameFallback ==
    LET users == {sshcfg.hosts[i].user :
                     i \in {j \in 1..Len(sshcfg.hosts) :
                               sshcfg.hosts[j].pattern = Hostname(u)}}
    IN  /\ (pc = "config" /\ u.User.username = "" /\ ~sshcfg.nil
              /\ users = {}) => username = OSUser /\ username # ""
        /\ (pc = "config" /\ u.User.username = "" /\ ~sshcfg.nil
              /\ users # {} /\ obs.getErr = "nil") => username \in users
        /\ obs.osUser = "fail" =>
              ret = Returned("", ErrUsername) /\ TransportDials = <<>>

\* C8: a username in the userinfo is the username of the session config,
\* whatever the config file holds, and neither lookup fails the resolution.
C8_UserinfoUsernameWins ==
    u.User.username # "" =>
        /\ pc = "config" => username = u.User.username
        /\ cfg.set => cfg.User = u.User.username
        /\ obs.getErr = "-" /\ obs.osUser = "-"
        /\ ret.err # ErrUsername
        /\ ~(ret.state = "panicked" /\ ~cfg.set)

\* alice is the username although the config file could not be read
C8_Witness ==
    /\ pc = "config"
    /\ sshcfg.nil
    /\ u.User.username = "alice"
    /\ username = "alice"

\* the control path after ~ expansion
ControlPathLiteral ==
    IF u.query.SSHControlPath = "~/ctl.sock" THEN "/home/op/ctl.sock"
    ELSE u.query.SSHControlPath

\* C9: with SSHControlPath set, the path is ViaControlChannel whatever the
\* proxy variables hold: no direct and no proxy dial is made; when the path
\* stats, the control socket is dialed at the expanded path, and the raw
\* transport is the channel to host:port opened over it.
C9_ControlChannelFirst ==
    (u.query.SSHControlPath # Absent /\ path.kind # "none") =>
        /\ path.kind = "ViaControlChannel"
        /\ \A i \in 1..Len(dials) : dials[i].kind \notin {"direct", "proxy"}
        /\ (pc # "controlDial" /\ obs.net # "nofile") =>
              /\ Len(dials) >= 1
              /\ dials[1] = Dial("control", "unix", ControlPathLiteral,
                                 ControlPathLiteral)
        /\ proxyConn.kind # "none" =>
              /\ proxyConn = [kind |-> "channel", addr |-> TargetLiteral]
              /\ dials[2] = Dial("channel", "tcp", TargetLiteral, TargetLiteral)

\* the channel over ~/ctl.sock is the transport although a proxy is set
C9_Witness ==
    /\ u.query.SSHControlPath = "~/ctl.sock"
    /\ path.proxyURI # ""
    /\ pc = "handshake"
    /\ proxyConn.kind = "channel"

\* the address of a proxy URL
ProxyAddrLiteral(uri) ==
    CASE uri = "socks5://127.0.0.1:1080" -> "127.0.0.1:1080"
      [] uri = "tcp://10.0.0.9:1080" -> "10.0.0.9:1080"
      [] OTHER -> "?"

\* C10: without SSHControlPath the path is ViaProxy as soon as HTTP_PROXY or
\* ALL_PROXY is set, the proxy being HTTP_PROXY's when that one is set and
\* ALL_PROXY's otherwise, and the proxy is dialed at the address of that
\* URL; the path is Direct exactly when the three are empty.
C10_ProxyDiscovery ==
    /\ (AfterSelectPath /\ u.query.SSHControlPath = Absent
          /\ (obs.httpProxy # "" \/ obs.allProxy # "")) =>
            /\ path.kind = "ViaProxy"
            /\ path.proxyURI = IF obs.httpProxy # "" THEN obs.httpProxy
                               ELSE obs.allProxy
    /\ AfterSelectPath =>
            (path.kind = "Direct" <=>
                (Get(u, "SSHControlPath") = "" /\ obs.httpProxy = ""
                    /\ obs.allProxy = ""))
    /\ \A i \in 1..Len(dials) :
            dials[i].kind = "proxy" =>
                /\ path.kind = "ViaProxy"
                /\ dials[i].addr = ProxyAddrLiteral(path.proxyURI)

\* ALL_PROXY alone selects the proxy at 127.0.0.1:1080
C10_Witness ==
    /\ AfterSelectPath
    /\ u.query.SSHControlPath = Absent
    /\ obs.httpProxy = ""
    /\ obs.allProxy = "socks5://127.0.0.1:1080"
    /\ path.kind = "ViaProxy"
    /\ path.proxyURI = "socks5://127.0.0.1:1080"

\* C11: whatever the path, the destination dialed (Direct), asked of the
\* control session (ViaControlChannel) or asked of the SOCKS proxy
\* (ViaProxy) is hostname:port, the port being 22 for a descriptor without
\* one, and it is the target of the handshake.
C11_DestinationIsHostPort ==
    /\ \A i \in 1..Len(dials) :
          (dials[i].kind \in {"direct", "proxy"}
              \/ (dials[i].kind = "channel" /\ dials[i].network = "tcp"))
            => dials[i].target = TargetLiteral
    /\ proxyConn.kind # "none" => proxyConn.addr = TargetLiteral

\* the opens of a channel to a remote unix socket
SocketOpens ==
    SelectSeq(dials, LAMBDA d : d.kind = "channel" /\ d.network = "unix")

\* the path of the remote socket: the socket parameter, else the default
SocketLiteral ==
    IF u.query.socket \in {Absent, ""} THEN defaultUnixSock ELSE u.query.socket

\* C12: the stream returned is the channel to the remote unix socket named
\* by the socket parameter, by the default path when there is none; that
\* channel is opened once at most, over an established session only, and
\* when its opening fails the resolution returns an error and no stream.
C12_StreamIsSocketChannel ==
    /\ Len(SocketOpens) <= 1
    /\ SocketOpens # <<>> =>
          /\ Has(conns, "session")
          /\ SocketOpens[1] = Dial("channel", "unix", SocketLiteral, SocketLiteral)
          /\ dials[Len(dials)] = SocketOpens[1]
    /\ ret.conn # "" =>
          /\ ret = Returned(SocketLiteral, "")
          /\ SocketOpens # <<>>
          /\ conns[Len(conns)] = "stream"
    /\ (SocketOpens # <<>> /\ obs.net = "refused") =>
          /\ ret = Returned("", ErrRemoteSocket)
          /\ ~Has(conns, "stream")
    /\ Has(conns, "stream") => ret.conn # ""

\* the stream to the socket of the descriptor came back
C12_Witness ==
    /\ u.query.socket = "/run/custom.sock"
    /\ ret = Returned("/run/custom.sock", "")
    /\ Len(SocketOpens) = 1

\* the opening of the default socket failed after the handshake
C12_WitnessRefused ==
    /\ u.query.socket = Absent
    /\ SocketOpens # <<>>
    /\ obs.net = "refused"
    /\ ret.err = ErrRemoteSocket

\* C13: the fallbacks that are only logged never end a resolution: before
\* the transport is selected a resolution ends only by returning one of
\* the three errors of the fatal steps; with one usable identifier in the
\* list, an unavailable agent, an unreadable key file or an unknown
\* identifier leaves the chain non-empty and the resolution going; and
\* with a config file that could not be read or parsed and no username in
\* the userinfo, the username is the name of the OS account.
C13_FallbacksNeverAbort ==
    /\ (pc = "done" /\ ~cfg.set) =>
          /\ ret.state = "returned"
          /\ ret.err \in {ErrNoAuth, ErrKnownHosts, ErrUsername}
    /\ (AfterParseAuth
          /\ \E i \in 1..Len(ConfiguredAuths) : ~Unusable(ConfiguredAuths[i]))
        => pc = "trust" /\ Len(authMethods) >= 1
    /\ (pc = "config" /\ sshcfg.nil /\ u.User.username = "")
        => username = OSUser

\* the connections of the resolution that are open
OpenConns == {i \in 1..Len(conns) : i \notin closed}

\* C14: once the caller has closed the returned stream, the raw transport
\* under the session is closed too (on the control path the channel to
\* host:port is released): of the connections the resolution opened only
\* the one to the shared control master remains open.
C14_CloseReleasesTransport ==
    pc = "closed" => \A i \in OpenConns : conns[i] = "control"

\* the place of a step in the order of the resolution
StepRank(p) ==
    CASE p = "openConfig" -> 0
      [] p = "parseAuth" -> 1
      [] p = "trust" -> 2
      [] p = "username" -> 3
      [] p = "config" -> 4
      [] p = "sshClient" -> 5
      [] p \in {"directDial", "controlDial", "proxyDial"} -> 6
      [] p = "controlSession" -> 7
      [] p = "handshake" -> 8
      [] p = "remoteDial" -> 9
      [] p \in {"done", "blocked"} -> 10
      [] OTHER -> 11

\* the dials a path makes
DialKindsOf(k) ==
    CASE k = "Direct" -> {"direct"}
      [] k = "ViaControlChannel" -> {"control", "channel"}
      [] k = "ViaProxy" -> {"proxy"}
      [] OTHER -> {}

\* the dials made are those of the selected path only, one of each at most
\* (raw transport, channel over the control session, remote socket), and a
\* failure of sshClient is the end of the resolution
OnePathOnly ==
    /\ \A i \in 1..Len(dials) :
          \/ dials[i].kind \in DialKindsOf(path.kind)
          \/ dials[i].kind = "channel" /\ dials[i].network = "unix"
    /\ Len(TransportDials) <= 1
    /\ Len(SelectSeq(dials, LAMBDA d : d.kind = "channel" /\ d.network = "tcp")) <= 1
    /\ Len(SocketOpens) <= 1
    /\ Len(SelectSeq(conns, LAMBDA c : c = "session")) <= 1
    /\ ret.state \in {"exited", "panicked"} => pc = "done"
    /\ (ret.state = "returned" /\ ret.err # "") => pc = "done"

\* C15: one path at most is attempted and nothing is retried: the path once
\* selected is kept, every step is taken once at most and in order (a
\* failed step is followed by no other step of any path), and a resolution
\* makes at most one raw transport dial, one handshake and one opening of
\* the remote socket.
C15_OnePathNoRetry ==
    /\ []OnePathOnly
    /\ [][path.kind # "none" => path' = path]_vars
    /\ [][StepRank(pc') > StepRank(pc)]_vars
    /\ [][(ret.state # "pending" /\ ret.conn = "") => UNCHANGED vars]_vars

\* the control socket did not stat and nothing else was dialed, although a
\* proxy is set
C15_Witness ==
    /\ path.kind = "ViaControlChannel"
    /\ path.proxyURI # ""
    /\ obs.net = "nofile"
    /\ pc = "done"
    /\ dials = <<>>

\* C16: the steps before the transport fail fast and in order: a path is
\* selected and a transport dialed only with the chain, the host key
\* callback and the username in the session config; a known-hosts file
\* that cannot be opened or parsed, verification being on, ends the
\* resolution with the known-hosts error and no dial; and an empty chain
\* ends it with the authentication error before the known-hosts file is
\* looked at, so that the known-hosts error is reported for a non-empty
\* chain only.
C16_FailFastOrder ==
    /\ (path.kind # "none" \/ dials # <<>>) =>
          /\ cfg.set
          /\ Len(cfg.Auth) >= 1
          /\ cfg.HostKeyCallback.kind \in {"insecure", "knownhosts"}
    /\ pc \in {"openConfig", "parseAuth", "trust", "username", "config"} =>
          path.kind = "none" /\ dials = <<>>
    /\ obs.khFile \in {"unreadable", "unparsable"} =>
          /\ DoVerify(u)
          /\ pc = "done"
          /\ ret = Returned("", ErrKnownHosts)
          /\ dials = <<>>
          /\ Len(authMethods) >= 1
    /\ (AfterParseAuth /\ authMethods = <<>>) =>
          /\ pc = "done"
          /\ ret = Returned("", ErrNoAuth)
          /\ dials = <<>>
    /\ ret.err = ErrNoAuth => hostKeyCallback = NoCallback /\ obs.khFile = "-"

\* the known-hosts file of the descriptor did not parse: no dial was made
C16_Witness ==
    /\ u.query.knownhosts = "/etc/kh"
    /\ obs.khFile = "unparsable"
    /\ ret = Returned("", ErrKnownHosts)
    /\ dials = <<>>

\* the session is Authenticating: the raw transport is connected, no
\* session is established and the call has not ended
Authenticating ==
    /\ proxyConn.kind # "none"
    /\ ~Has(conns, "session")
    /\ ret.state = "pending"

\* C17: the timeout of the session config bounds the handshake on every
\* path: a session that is Authenticating is never left without a step
\* that ends the handshake, in Established or in Failed, even when the
\* remote party does not answer.
C17_HandshakeBounded ==
    Authenticating => ENABLED Next

\* C18: when dialSSH returns an error, every connection the resolution
\* opened (agent, control socket, channel, proxy, raw transport, session)
\* has been closed.
C18_FailureLeavesNothingOpen ==
    (ret.state = "returned" /\ ret.err # "") => OpenConns = {}

\* the password methods of the chain
PasswordMethods == SelectSeq(authMethods, LAMBDA a : a.method = "password")

\* C19: the chain holds a password method, made of the password of the
\* userinfo, exactly when the sshauth list names ssh-password and the
\* userinfo carries a password, empty or not; with the default list the
\* password of the userinfo is not offered, and a descriptor that has one
\* but finds no agent and cannot read the key file fails with the
\* authentication error before any dial.
C19_PasswordOnlyOnRequest ==
    AfterParseAuth =>
        /\ PasswordMethods # <<>>
              <=> (Has(ConfiguredAuths, "ssh-password") /\ u.User.passwordSet)
        /\ \A k \in 1..Len(PasswordMethods) :
              PasswordMethods[k] = [method |-> "password", source |-> "userinfo",
                                    signer |-> "-", password |-> u.User.password]
        /\ Get(u, "sshauth") = "" => PasswordMethods = <<>>
        /\ (Get(u, "sshauth") = "" /\ u.User.passwordSet
              /\ obs.agent # "ok" /\ obs.keyFile = "unreadable")
            => /\ pc = "done"
               /\ ret = Returned("", ErrNoAuth)
               /\ dials = <<>>

\* an empty password was asked for and is in the chain
C19_Witness ==
    /\ AfterParseAuth
    /\ u.query.sshauth = "ssh-password"
    /\ u.User.passwordSet /\ u.User.password = ""
    /\ authMethods = <<PasswordMethod("")>>
    /\ pc = "trust"

\* the default list left a password unused and the resolution failed
C19_WitnessDefault ==
    /\ AfterParseAuth
    /\ u.query.sshauth = Absent
    /\ u.User.password = "secret"
    /\ ret = Returned("", ErrNoAuth)
====
